---- MODULE Spec2Model ----
(***************************************************************************)
(* Statistical anomaly detection engine of the financial risk & cost       *)
(* analytics pipeline (analytics/src/anomaly_detection.py, utils.py).      *)
(*                                                                         *)
(* Tables are [cols, rows]: the set of column names and the sequence of    *)
(* rows, each row a function from column name to value.  Numeric inputs    *)
(* are integers; every score is kept exactly, as sgn * sqrt(num / den),    *)
(* so that comparisons with the threshold and between scores are exact.    *)
(* NaN is a score of its own: every comparison with it is false.           *)
(***************************************************************************)
EXTENDS Integers, Sequences, FiniteSets, TLC

VARIABLES
    costs_df,            \* the caller's cost table      (data['costs'])
    loans_df,            \* the caller's loan table      (data['loans'])
    monthly_kpis,        \* the caller's monthly KPI table
    given,               \* the three tables as they were handed in
    pc,                  \* position of the caller / of run
    call,                \* the entry point invoked and its arguments
    ret,                 \* what the entry point returned
    exc,                 \* the exception that ended the call, if any
    gar_cost_anomalies,  \* generate_anomaly_report: cost_anomalies
    gar_loan_anomalies,  \* generate_anomaly_report: loan_anomalies
    gar_kpi_anomalies,   \* generate_anomaly_report: kpi_anomalies
    summary,             \* run: summary (generate_anomaly_report's value)
    cost_anomalies,      \* run: cost_anomalies
    loan_anomalies,      \* run: loan_anomalies
    kpi_anomalies,       \* run: kpi_anomalies
    outputs              \* files written by save_output: name -> table

vars == <<costs_df, loans_df, monthly_kpis, given, pc, call, ret, exc,
          gar_cost_anomalies, gar_loan_anomalies, gar_kpi_anomalies, summary,
          cost_anomalies, loan_anomalies, kpi_anomalies, outputs>>

----------------------------------------------------------------------------
(* Bounds of the explored inputs *)

PadMax == 10        \* at most this many typical (all-zero) rows lead a table
PadStep == 3        \* the numbers of typical rows tried lie this far apart
FreeMax == 2        \* at most this many freely chosen rows follow them
MaxMonths == 6      \* longest monthly series
SpikeValue == 50    \* the large value a KPI may take besides 0 and 1
InjectMax == 5      \* a cluster holds up to this many values on either side of its mean
BulkTypical == 128  \* typical rows of the table that flags more than TopN records

(* Program constants *)

Z_SCORE_THRESHOLD == 3
WindowCap == 3

----------------------------------------------------------------------------
(* Exact arithmetic *)

Abs(x) == IF x < 0 THEN -x ELSE x

Sign(x) == IF x < 0 THEN -1 ELSE IF x > 0 THEN 1 ELSE 0

Min(a, b) == IF a < b THEN a ELSE b

RECURSIVE GCD(_, _)
GCD(a, b) == IF b = 0 THEN a ELSE GCD(b, a % b)

\* s[lo] + ... + s[hi], by halves
RECURSIVE SumRange(_, _, _)
SumRange(s, lo, hi) ==
    IF lo > hi THEN 0
    ELSE IF lo = hi THEN s[lo]
    ELSE SumRange(s, lo, (lo + hi) \div 2) + SumRange(s, (lo + hi) \div 2 + 1, hi)

SumSeq(s) == SumRange(s, 1, Len(s))

SumSq(s) == SumSeq([i \in 1..Len(s) |-> s[i] * s[i]])

\* float('nan')
NaN == [nan |-> TRUE, sgn |-> 0, num |-> 0, den |-> 1]

\* the float 0.0
Zero == [nan |-> FALSE, sgn |-> 0, num |-> 0, den |-> 1]

\* sgn(dev) * sqrt(num / den), num / den in lowest terms
Root(dev, num, den) ==
    LET Over(g) == [nan |-> FALSE, sgn |-> Sign(dev), num |-> num \div g, den |-> den \div g]
    IN  IF num = 0 THEN Zero ELSE Over(GCD(num, den))

\* Series.abs() on one score
AbsScore(z) == [z EXCEPT !.sgn = Abs(z.sgn)]

\* a / b > c / d for a, c >= 0 and b, d > 0, by whole parts and then the
\* remainders, so that no product is formed
RECURSIVE FracGT(_, _, _, _)
FracGT(a, b, c, d) ==
    IF a \div b # c \div d THEN a \div b > c \div d
    ELSE IF a % b = 0 THEN FALSE
    ELSE IF c % d = 0 THEN TRUE
    ELSE FracGT(d, c % d, b, a % b)

\* a > b on non-negative scores; False when either is NaN
ScoreGT(a, b) ==
    /\ ~a.nan /\ ~b.nan
    /\ IF a.den = 0 THEN b.den # 0
       ELSE IF b.den = 0 THEN FALSE
       ELSE FracGT(a.num, a.den, b.num, b.den)

\* abs(z) > threshold, threshold a non-negative whole number; False on NaN
AbsExceeds(z, threshold) ==
    /\ ~z.nan
    /\ IF z.den = 0 THEN TRUE ELSE FracGT(z.num, z.den, threshold * threshold, 1)

----------------------------------------------------------------------------
(* DataFrame operations *)

\* pd.DataFrame()
EmptyFrame == [cols |-> {}, rows |-> <<>>]

\* df[c] as a sequence of values (c is a column of df)
Column(df, c) == [i \in 1..Len(df.rows) |-> df.rows[i][c]]

\* df[c] = values: adds the column, or overwrites the column of that name
SetColumn(df, c, values) ==
    [cols |-> df.cols \cup {c},
     rows |-> [i \in 1..Len(df.rows) |-> (c :> values[i]) @@ df.rows[i]]]

\* df[c] = v for one scalar v
SetScalar(df, c, v) == SetColumn(df, c, [i \in 1..Len(df.rows) |-> v])

\* df[list of columns]
Project(df, cs) ==
    [cols |-> cs,
     rows |-> [i \in 1..Len(df.rows) |-> [c \in cs |-> df.rows[i][c]]]]

\* the rows whose entry of the boolean mask is True, in their order
TakeRows(rows, mask) ==
    LET kept == {i \in 1..Len(rows) : mask[i]}
        At(k) == CHOOSE i \in kept : Cardinality({j \in kept : j <= i}) = k
    IN  [k \in 1..Cardinality(kept) |-> rows[At(k)]]

\* df[mask]: the rows kept in their order, the columns as they are
Filter(df, mask) == [cols |-> df.cols, rows |-> TakeRows(df.rows, mask)]

\* (a variant that keeps every row)
HeadRows_All(df, k) == df

\* df.head(k)
HeadRows(df, k) == [cols |-> df.cols, rows |-> SubSeq(df.rows, 1, Min(k, Len(df.rows)))]

\* the outcome of a call that raised KeyError(key), with the table the call
\* was handed as the call leaves it
Raised(df, key) == [exc |-> "KeyError", key |-> key, df |-> df, value |-> EmptyFrame]

\* (a variant that fails on an empty result instead of returning it)
Returned_EmptyRaises(df, value) ==
    IF value.rows = <<>> THEN Raised(df, "anomaly_type")
    ELSE [exc |-> "none", key |-> "", df |-> df, value |-> value]

\* (a variant that leaves the caller's table cut down to the returned rows)
Returned_KeepsOnlyResult(df, value) ==
    [exc |-> "none", key |-> "", df |-> value, value |-> value]

\* the outcome of a call that returned value
Returned(df, value) == [exc |-> "none", key |-> "", df |-> df, value |-> value]

\* the orders df.sort_values(c, ascending=False) can give on a score column:
\* highest first and NaN last.  Rows whose scores are equal as exact numbers
\* come in any order: computed as floats from different columns they may
\* differ in the last bits, and the order of equal floats is that of the
\* quicksort numpy was built with.  Row by row: the last row goes to any place
\* where no row ahead of it is lower and no row behind it is higher
RECURSIVE SortDescRows(_, _)
SortDescRows(rows, c) ==
    IF rows = <<>> THEN {<<>>}
    ELSE LET n == Len(rows)
             r == rows[n]
             Fits(sorted, k) ==
                 /\ \A j \in 1..k :
                       r[c].nan \/ (~sorted[j][c].nan /\ ~ScoreGT(r[c], sorted[j][c]))
                 /\ \A j \in (k + 1)..(n - 1) :
                       ~r[c].nan /\ ~ScoreGT(sorted[j][c], r[c])
             Insert(sorted) ==
                 {SubSeq(sorted, 1, k) \o <<r>> \o SubSeq(sorted, k + 1, n - 1) :
                     k \in {k \in 0..(n - 1) : Fits(sorted, k)}}
         IN  UNION {Insert(sorted) : sorted \in SortDescRows(SubSeq(rows, 1, n - 1), c)}

\* (a variant that leaves the rows in their input order)
SortValuesDesc_InputOrder(df, c) == {df}

SortValuesDesc(df, c) ==
    {[cols |-> df.cols, rows |-> rows] : rows \in SortDescRows(df.rows, c)}

\* the rows of value that have equal severity stand in the order they have in
\* before: a repeated call sorts the same floats with the same sort
TiesAsBefore(value, before, idc) ==
    \A i, j \in 1..Len(value.rows) :
        (i < j /\ value.rows[i]["severity"] = value.rows[j]["severity"]) =>
            \A p, q \in 1..Len(before.rows) :
                (/\ before.rows[p][idc] = value.rows[i][idc]
                 /\ before.rows[q][idc] = value.rows[j][idc]) => p < q

\* df.sort_values(c) on a whole-number column: lowest first, ties in order
RECURSIVE SortAscRows(_, _)
SortAscRows(rows, c) ==
    IF rows = <<>> THEN <<>>
    ELSE LET n == Len(rows)
             r == rows[n]
             sorted == SortAscRows(SubSeq(rows, 1, n - 1), c)
             k == Cardinality({j \in 1..(n - 1) : sorted[j][c] <= r[c]})
         IN  SubSeq(sorted, 1, k) \o <<r>> \o SubSeq(sorted, k + 1, n - 1)

SortValues(df, c) == [cols |-> df.cols, rows |-> SortAscRows(df.rows, c)]

\* Series.max() / DataFrame.max(axis=1) over scores: NaN is skipped, and is
\* the result only when nothing else is there
RECURSIVE MaxScore(_)
MaxScore(s) ==
    IF s = <<>> THEN NaN
    ELSE LET h == Head(s)
             m == MaxScore(Tail(s))
         IN  IF h.nan THEN m
             ELSE IF m.nan THEN h
             ELSE IF ScoreGT(m, h) THEN m ELSE h

----------------------------------------------------------------------------
(* utils.py *)

\* Series.mean(): NaN for an empty series, else sum / count as [num, den]
SeriesMean(series) ==
    IF Len(series) = 0 THEN [nan |-> TRUE, num |-> 0, den |-> 1]
    ELSE [nan |-> FALSE, num |-> SumSeq(series), den |-> Len(series)]

\* Series.std(), the sample standard deviation (ddof = 1): NaN for fewer than
\* two values, else sqrt((n * sum(x^2) - sum(x)^2) / (n * (n - 1)))
SeriesStd(series) ==
    LET Spread(n, S) == Root(1, n * SumSq(series) - S * S, n * (n - 1))
    IN  IF Len(series) < 2 THEN NaN
        ELSE Spread(Len(series), SumSeq(series))

\* (x - mean) / std for one value x: NaN when mean or std is NaN, 0 / 0 is
\* NaN, and a non-zero deviation over a zero std is infinite
Standardize(x, mean, std) ==
    LET dev == x * mean.den - mean.num
    IN  IF mean.nan \/ std.nan THEN NaN
        ELSE IF std.num = 0
             THEN IF dev = 0 THEN NaN
                  ELSE [nan |-> FALSE, sgn |-> Sign(dev), num |-> 1, den |-> 0]
        ELSE Root(dev, dev * dev * std.den, mean.den * mean.den * std.num)

calculate_z_score(series) ==
    LET Scores(mean, std) ==
            IF std = Zero
            THEN [i \in 1..Len(series) |-> Zero]
            ELSE [i \in 1..Len(series) |-> Standardize(series[i], mean, std)]
    IN  Scores(SeriesMean(series), SeriesStd(series))

\* raises ValueError naming the set of all missing columns, else returns True
validate_dataframe(df, required_columns) ==
    LET missing == required_columns \ df.cols
    IN  IF missing # {}
        THEN [exc |-> "ValueError", missing |-> missing, value |-> FALSE]
        ELSE [exc |-> "none", missing |-> {}, value |-> TRUE]

----------------------------------------------------------------------------
(* anomaly_detection.py: cross-sectional detectors *)

\* (a variant that asks every watched field to exceed the threshold)
IsCostAnomaly_AllFields(x, threshold) ==
    /\ AbsExceeds(x["variance_z_score"], threshold)
    /\ AbsExceeds(x["actual_z_score"], threshold)

\* the row mask of detect_cost_anomalies
IsCostAnomaly(x, threshold) ==
    \/ AbsExceeds(x["variance_z_score"], threshold)
    \/ AbsExceeds(x["actual_z_score"], threshold)

\* (a variant that labels by the field with the larger absolute score)
CostAnomalyType_LargestScore(x, threshold) ==
    IF ScoreGT(AbsScore(x["actual_z_score"]), AbsScore(x["variance_z_score"]))
    THEN "High Amount"
    ELSE "High Variance"

\* the lambda of detect_cost_anomalies
CostAnomalyType(x, threshold) ==
    IF AbsExceeds(x["variance_z_score"], threshold) THEN "High Variance"
    ELSE "High Amount"

\* anomalies[[...]].abs().max(axis=1) for one row
RowSeverity(x, score_cols) ==
    MaxScore([k \in 1..Len(score_cols) |-> AbsScore(x[score_cols[k]])])

\* df[score_col] = calculate_z_score(df[col])
WithZScore(df, col, score_col) ==
    SetColumn(df, score_col, calculate_z_score(Column(df, col)))

\* anomalies['severity'] = anomalies[score_cols].abs().max(axis=1)
WithSeverity(anomalies, score_cols) ==
    SetColumn(anomalies, "severity",
              [i \in 1..Len(anomalies.rows) |-> RowSeverity(anomalies.rows[i], score_cols)])

\* the outcomes detect_cost_anomalies can have: the statements in their
\* order, each handed the table the one before it left
detect_cost_anomalies(costs, threshold) ==
    LET Rank(df, anomalies) ==
            {Returned(df, sorted) : sorted \in SortValuesDesc(anomalies, "severity")}
        Score(df, anomalies) ==
            Rank(df, WithSeverity(anomalies, <<"variance_z_score", "actual_z_score">>))
        \* DataFrame.apply(f, axis=1) on a table without rows yields an
        \* empty column (pandas tries f on one all-NaN row to learn that
        \* it returns a scalar)
        Label(df, anomalies) ==
            Score(df, SetColumn(anomalies, "anomaly_type",
                          [i \in 1..Len(anomalies.rows) |->
                              CostAnomalyType(anomalies.rows[i], threshold)]))
        Flag(df) ==
            Label(df, Filter(df, [i \in 1..Len(df.rows) |->
                                     IsCostAnomaly(df.rows[i], threshold)]))
        ScoreAmount(df) ==
            IF "actual_amount" \notin df.cols THEN {Raised(df, "actual_amount")}
            ELSE Flag(WithZScore(df, "actual_amount", "actual_z_score"))
    IN  IF "variance_pct" \notin costs.cols THEN {Raised(costs, "variance_pct")}
        ELSE ScoreAmount(WithZScore(costs, "variance_pct", "variance_z_score"))

\* the row mask of detect_loan_anomalies
IsLoanAnomaly(x, threshold) ==
    \/ AbsExceeds(x["pd_z_score"], threshold)
    \/ AbsExceeds(x["ecl_z_score"], threshold)
    \/ AbsExceeds(x["ead_z_score"], threshold)

\* the lambda of detect_loan_anomalies
LoanAnomalyType(x, threshold) ==
    IF AbsExceeds(x["pd_z_score"], threshold) THEN "High PD"
    ELSE IF AbsExceeds(x["ecl_z_score"], threshold) THEN "High ECL"
    ELSE "High EAD"

\* the outcomes detect_loan_anomalies can have
detect_loan_anomalies(loans, threshold) ==
    LET Rank(df, anomalies) ==
            {Returned(df, sorted) : sorted \in SortValuesDesc(anomalies, "severity")}
        Score(df, anomalies) ==
            Rank(df, WithSeverity(anomalies, <<"pd_z_score", "ecl_z_score", "ead_z_score">>))
        Label(df, anomalies) ==
            Score(df, SetColumn(anomalies, "anomaly_type",
                          [i \in 1..Len(anomalies.rows) |->
                              LoanAnomalyType(anomalies.rows[i], threshold)]))
        Flag(df) ==
            Label(df, Filter(df, [i \in 1..Len(df.rows) |->
                                     IsLoanAnomaly(df.rows[i], threshold)]))
        ScoreEad(df) ==
            IF "ead" \notin df.cols THEN {Raised(df, "ead")}
            ELSE Flag(WithZScore(df, "ead", "ead_z_score"))
        ScoreEcl(df) ==
            IF "ecl" \notin df.cols THEN {Raised(df, "ecl")}
            ELSE ScoreEad(WithZScore(df, "ecl", "ecl_z_score"))
    IN  IF "pd" \notin loans.cols THEN {Raised(loans, "pd")}
        ELSE ScoreEcl(WithZScore(loans, "pd", "pd_z_score"))

----------------------------------------------------------------------------
(* anomaly_detection.py: time-series detector *)

\* Series.rolling(window).mean(): NaN until the window is full
RollingMean(values, window) ==
    [i \in 1..Len(values) |->
        IF i < window THEN SeriesMean(<<>>)
        ELSE SeriesMean(SubSeq(values, i - window + 1, i))]

\* (a variant that takes the deviation of the window points before point i)
RollingStd_Preceding(values, window) ==
    [i \in 1..Len(values) |->
        IF i <= window THEN NaN
        ELSE SeriesStd(SubSeq(values, i - window, i - 1))]

\* Series.rolling(window).std(): NaN until the window is full
RollingStd(values, window) ==
    [i \in 1..Len(values) |->
        IF i < window THEN NaN
        ELSE SeriesStd(SubSeq(values, i - window + 1, i))]

\* (a variant that lets the window take every point there is)
WindowFor_AllPoints(n) == Min(WindowCap, n)

\* the rolling window of detect_time_series_anomalies for n points
WindowFor(n) == Min(WindowCap, n - 1)

detect_time_series_anomalies(df, value_col, date_col) ==
    LET Flag(scored) ==
            Returned(df, Filter(scored, [i \in 1..Len(scored.rows) |->
                AbsExceeds(scored.rows[i]["rolling_z_score"], Z_SCORE_THRESHOLD)]))
        Score(sorted, values, means, stds) ==
            Flag(SetColumn(SetColumn(SetColumn(sorted, "rolling_mean", means),
                                     "rolling_std", stds),
                           "rolling_z_score",
                           [i \in 1..Len(values) |->
                               Standardize(values[i], means[i], stds[i])]))
        Roll(sorted, values, window) ==
            Score(sorted, values, RollingMean(values, window), RollingStd(values, window))
        Window(sorted, window) ==
            IF window < 2 THEN Returned(df, EmptyFrame)
            ELSE IF value_col \notin sorted.cols THEN Raised(df, value_col)
            ELSE Roll(sorted, Column(sorted, value_col), window)
        Sorted(sorted) == Window(sorted, WindowFor(Len(sorted.rows)))
    IN  IF date_col \notin df.cols THEN Raised(df, date_col)
        ELSE Sorted(SortValues(df, date_col))

kpi_columns == <<"total_revenue", "actual_amount", "profit", "variance_pct">>

\* pd.concat(frames, ignore_index=True): the rows one after the other over
\* the union of the columns, NaN where a frame lacks a column
RECURSIVE Concat(_)
Concat(frames) ==
    IF frames = <<>> THEN EmptyFrame
    ELSE LET rest == Concat(Tail(frames))
             cols == Head(frames).cols \cup rest.cols
             Widen(r) == [c \in cols |-> IF c \in DOMAIN r THEN r[c] ELSE NaN]
             rows == Head(frames).rows \o rest.rows
         IN  [cols |-> cols, rows |-> [i \in 1..Len(rows) |-> Widen(rows[i])]]

\* the loop of analyze_monthly_kpi_anomalies from column k on: the frames
\* collected, or the KeyError that ended it
RECURSIVE KpiLoop(_, _, _)
KpiLoop(kpis, k, anomalies) ==
    LET col == kpi_columns[k]
        Kept(found) ==
            Project(SetScalar(found, "kpi_name", col),
                    {"month", "kpi_name", col, "rolling_z_score"})
        Collect(out) ==
            IF out.exc # "none"
            THEN [exc |-> out.exc, key |-> out.key, frames |-> anomalies, k |-> k]
            ELSE [exc |-> "none", key |-> "", k |-> k + 1,
                  frames |-> IF Len(out.value.rows) > 0
                             THEN Append(anomalies, Kept(out.value))
                             ELSE anomalies]
        Step(at) ==
            IF at.exc # "none" THEN [exc |-> at.exc, key |-> at.key, frames |-> at.frames]
            ELSE KpiLoop(kpis, at.k, at.frames)
    IN  IF k > Len(kpi_columns) THEN [exc |-> "none", key |-> "", frames |-> anomalies]
        ELSE Step(IF col \notin kpis.cols
                  THEN [exc |-> "none", key |-> "", k |-> k + 1, frames |-> anomalies]
                  ELSE Collect(detect_time_series_anomalies(kpis, col, "month")))

analyze_monthly_kpi_anomalies(kpis) ==
    LET Result(loop) ==
            IF loop.exc # "none" THEN Raised(kpis, loop.key)
            ELSE IF loop.frames # <<>> THEN Returned(kpis, Concat(loop.frames))
            ELSE Returned(kpis, EmptyFrame)
    IN  Result(KpiLoop(kpis, 1, <<>>))

----------------------------------------------------------------------------
(* anomaly_detection.py: report aggregator *)

TopN == 10

CostSummaryRow(anomalies) ==
    [category |-> "Costs",
     anomaly_count |-> Len(anomalies.rows),
     top_issue |-> anomalies.rows[1]["business_unit"],
     max_severity |-> MaxScore(Column(anomalies, "severity")),
     total_variance |-> SumSeq(Column(anomalies, "variance_amount"))]

LoanSummaryRow(anomalies) ==
    [category |-> "Loans",
     anomaly_count |-> Len(anomalies.rows),
     top_issue |-> anomalies.rows[1]["loan_type"],
     max_severity |-> MaxScore(Column(anomalies, "severity")),
     total_variance |-> SumSeq(Column(anomalies, "ecl"))]

KpiSummaryRow(anomalies) ==
    [category |-> "KPIs",
     anomaly_count |-> Len(anomalies.rows),
     top_issue |-> anomalies.rows[1]["kpi_name"],
     max_severity |-> MaxScore([i \in 1..Len(anomalies.rows) |->
                                   AbsScore(anomalies.rows[i]["rolling_z_score"])]),
     total_variance |-> 0]

\* (a variant that keeps a zero row for a category without findings)
BuildSummary_Placeholder(costs, loans, kpis) ==
    LET None(category) == [category |-> category, anomaly_count |-> 0, top_issue |-> "N/A",
                           max_severity |-> NaN, total_variance |-> 0]
    IN  <<IF Len(costs.rows) > 0 THEN CostSummaryRow(costs) ELSE None("Costs"),
          IF Len(loans.rows) > 0 THEN LoanSummaryRow(loans) ELSE None("Loans"),
          IF Len(kpis.rows) > 0 THEN KpiSummaryRow(kpis) ELSE None("KPIs")>>

\* the summary list of generate_anomaly_report
BuildSummary(costs, loans, kpis) ==
    (IF Len(costs.rows) > 0 THEN <<CostSummaryRow(costs)>> ELSE <<>>)
    \o (IF Len(loans.rows) > 0 THEN <<LoanSummaryRow(loans)>> ELSE <<>>)
    \o (IF Len(kpis.rows) > 0 THEN <<KpiSummaryRow(kpis)>> ELSE <<>>)

\* the combined list of run
BuildCombined(costs, loans) ==
    (IF Len(costs.rows) > 0
     THEN <<SetScalar(HeadRows(Project(costs,
                {"cost_id", "business_unit", "anomaly_type", "severity"}), TopN),
                "category", "Cost")>>
     ELSE <<>>)
    \o (IF Len(loans.rows) > 0
        THEN <<SetScalar(HeadRows(Project(loans,
                   {"loan_id", "loan_type", "anomaly_type", "severity"}), TopN),
                   "category", "Loan")>>
        ELSE <<>>)

\* the files run writes through save_output
SavedFiles(summ, costs, loans, kpis) ==
    LET combined == BuildCombined(costs, loans)
    IN  ("anomalies_summary.csv" :> summ)
        @@ ("cost_anomalies.csv" :> costs)
        @@ ("loan_anomalies.csv" :> loans)
        @@ (IF Len(kpis.rows) > 0 THEN ("kpi_anomalies.csv" :> kpis) ELSE <<>>)
        @@ (IF combined # <<>> THEN ("anomalies.csv" :> Concat(combined)) ELSE <<>>)

----------------------------------------------------------------------------
(* Input tables *)

BusinessUnits == <<"Retail Banking", "Operations">>
LoanTypes == <<"Mortgage", "Auto">>
Thresholds == 1..Z_SCORE_THRESHOLD

\* how many typical rows lead a table: none, or PadMax less a multiple of PadStep
Pads == {0} \cup {p \in 0..PadMax : (PadMax - p) % PadStep = 0}

SeqsUpTo(S, n) == UNION {[1..k -> S] : k \in 0..n}

CostColumns == {"cost_id", "business_unit", "variance_pct", "actual_amount", "variance_amount"}
LoanColumns == {"loan_id", "loan_type", "pd", "ecl", "ead"}

CostRow(i, v) ==
    [cost_id |-> i, business_unit |-> BusinessUnits[(i % 2) + 1],
     variance_pct |-> v[1], actual_amount |-> v[2], variance_amount |-> v[2]]

LoanRow(i, v) ==
    [loan_id |-> i, loan_type |-> LoanTypes[(i % 2) + 1],
     pd |-> v[1], ecl |-> v[2], ead |-> v[3]]

\* pad typical rows, then the rows of free
CostTable(pad, free) ==
    [cols |-> CostColumns,
     rows |-> [i \in 1..(pad + Len(free)) |->
                  IF i <= pad THEN CostRow(i, <<0, 0>>) ELSE CostRow(i, free[i - pad])]]

LoanTable(pad, free) ==
    [cols |-> LoanColumns,
     rows |-> [i \in 1..(pad + Len(free)) |->
                  IF i <= pad THEN LoanRow(i, <<0, 0, 0>>) ELSE LoanRow(i, free[i - pad])]]

\* the table without the columns of drop
DropColumns(df, drop) == Project(df, df.cols \ drop)

\* months 1..n in the order given by backwards, one KPI series or two
KpiTable(values, backwards, both) ==
    LET n == Len(values)
        cols == {"month", "total_revenue"} \cup (IF both THEN {"profit"} ELSE {})
        Row(i) == [c \in cols |-> IF c = "month" THEN i
                                  ELSE IF c = "total_revenue" THEN values[i]
                                  ELSE values[n + 1 - i]]
    IN  [cols |-> cols,
         rows |-> [i \in 1..n |-> IF backwards THEN Row(n + 1 - i) ELSE Row(i)]]

\* r values below, one at and r above their mean 1: sample deviation 1
ClusteredValues(r) ==
    [i \in 1..(2 * r + 1) |-> IF i <= r THEN 0 ELSE IF i = r + 1 THEN 1 ELSE 2]

\* a cluster of variance_pct values and, last, one record at their
\* mean + 10 * stddev = 1 + 10 * 1
InjectedTable(r) ==
    CostTable(0, [i \in 1..(2 * r + 2) |->
                     IF i <= 2 * r + 1 THEN <<ClusteredValues(r)[i], 0>> ELSE <<11, 0>>])

\* many typical rows, then eleven records far off on one field each, the
\* lower values first: four on pd, three on ecl, four on ead
BulkTable ==
    LoanTable(BulkTypical,
              <<<<0, 0, 1>>, <<0, 1, 0>>, <<2, 0, 0>>, <<0, 0, 1>>, <<0, 2, 0>>, <<2, 0, 0>>,
                <<0, 0, 2>>, <<0, 3, 0>>, <<3, 0, 0>>, <<0, 0, 2>>, <<3, 0, 0>>>>)

CostTables ==
    {CostTable(pad, free) : pad \in Pads, free \in SeqsUpTo({0, 1} \X {0, 1}, FreeMax)}
    \cup {InjectedTable(r) : r \in 2..InjectMax}
    \cup {DropColumns(CostTable(PadMax, <<<<1, 1>>>>), drop) :
             drop \in SUBSET {"variance_pct", "actual_amount"}}

LoanTables ==
    {LoanTable(pad, free) : pad \in Pads,
                            free \in SeqsUpTo({0, 1} \X {0, 1} \X {0, 1}, FreeMax)}
    \cup {BulkTable}
    \cup {DropColumns(LoanTable(PadMax, <<<<1, 1, 1>>>>), drop) :
             drop \in SUBSET {"pd", "ecl", "ead"}}

KpiTables ==
    {KpiTable(values, backwards, both) :
        values \in SeqsUpTo({0, SpikeValue}, MaxMonths),
        backwards \in BOOLEAN, both \in BOOLEAN}
    \cup {DropColumns(KpiTable(<<0, 0, 0, SpikeValue>>, FALSE, TRUE), {"month"})}

\* a few tables of the other categories beside the one explored in full
FewCosts == {CostTable(PadMax, <<<<0, 1>>>>)}

FewLoans ==
    {LoanTable(PadMax, <<<<0, 0, 1>>>>), LoanTable(2, <<<<1, 0, 0>>>>),
     LoanTable(0, <<>>), DropColumns(LoanTable(PadMax, <<<<1, 1, 1>>>>), {"pd", "ecl"})}

FewKpis == {KpiTable(<<0, 0, 0, SpikeValue>>, FALSE, TRUE)}

----------------------------------------------------------------------------
(* The caller: one entry point is invoked on the tables *)

NoExc == [type |-> "none", keys |-> {}]

\* the exception a failed call raised
Error(out) == [type |-> out.exc, keys |-> {out.key}]

Init ==
    /\ \/ costs_df \in CostTables /\ loans_df \in FewLoans /\ monthly_kpis \in FewKpis
       \/ costs_df \in FewCosts /\ loans_df \in LoanTables /\ monthly_kpis \in FewKpis
       \/ costs_df \in FewCosts /\ loans_df = LoanTable(PadMax, <<<<0, 0, 1>>>>)
          /\ monthly_kpis \in KpiTables
    /\ given = [costs |-> costs_df, loans |-> loans_df, kpis |-> monthly_kpis]
    /\ pc = "start"
    /\ call = [fn |-> "none"]
    /\ ret = EmptyFrame
    /\ exc = NoExc
    /\ gar_cost_anomalies = EmptyFrame
    /\ gar_loan_anomalies = EmptyFrame
    /\ gar_kpi_anomalies = EmptyFrame
    /\ summary = <<>>
    /\ cost_anomalies = EmptyFrame
    /\ loan_anomalies = EmptyFrame
    /\ kpi_anomalies = EmptyFrame
    /\ outputs = <<>>

locals == <<gar_cost_anomalies, gar_loan_anomalies, gar_kpi_anomalies, summary,
            cost_anomalies, loan_anomalies, kpi_anomalies, outputs>>

\* the caller gets out.value, or the exception out raised
Finish(out) ==
    /\ ret' = out.value
    /\ exc' = IF out.exc = "none" THEN NoExc ELSE Error(out)
    /\ pc' = IF out.exc = "none" THEN "returned" ELSE "raised"

CallDetectCostAnomalies(threshold) ==
    /\ pc = "start"
    /\ \E out \in detect_cost_anomalies(costs_df, threshold) :
           /\ costs_df' = out.df
           /\ Finish(out)
    /\ call' = [fn |-> "detect_cost_anomalies", threshold |-> threshold]
    /\ UNCHANGED <<loans_df, monthly_kpis, given, locals>>

CallDetectLoanAnomalies(threshold) ==
    /\ pc = "start"
    /\ \E out \in detect_loan_anomalies(loans_df, threshold) :
           /\ loans_df' = out.df
           /\ Finish(out)
    /\ call' = [fn |-> "detect_loan_anomalies", threshold |-> threshold]
    /\ UNCHANGED <<costs_df, monthly_kpis, given, locals>>

CallDetectTimeSeriesAnomalies(value_col) ==
    /\ pc = "start"
    /\ \E out \in {detect_time_series_anomalies(monthly_kpis, value_col, "month")} :
           /\ monthly_kpis' = out.df
           /\ Finish(out)
    /\ call' = [fn |-> "detect_time_series_anomalies", value_col |-> value_col]
    /\ UNCHANGED <<costs_df, loans_df, given, locals>>

CallAnalyzeMonthlyKpiAnomalies ==
    /\ pc = "start"
    /\ \E out \in {analyze_monthly_kpi_anomalies(monthly_kpis)} :
           /\ monthly_kpis' = out.df
           /\ Finish(out)
    /\ call' = [fn |-> "analyze_monthly_kpi_anomalies"]
    /\ UNCHANGED <<costs_df, loans_df, given, locals>>

CallValidateDataframe(name) ==
    /\ pc = "start"
    /\ LET out == IF name = "costs"
                  THEN validate_dataframe(costs_df, {"variance_pct", "actual_amount"})
                  ELSE validate_dataframe(loans_df, {"pd", "ecl", "ead"})
       IN  /\ ret' = out.value
           /\ exc' = IF out.exc = "none" THEN NoExc
                     ELSE [type |-> "ValueError", keys |-> out.missing]
           /\ pc' = IF out.exc = "none" THEN "returned" ELSE "raised"
    /\ call' = [fn |-> "validate_dataframe", name |-> name]
    /\ UNCHANGED <<costs_df, loans_df, monthly_kpis, given, locals>>

----------------------------------------------------------------------------
(* run(data, monthly_kpis), step by step *)

CallRun ==
    /\ pc = "start"
    /\ pc' = "gar_costs"
    /\ call' = [fn |-> "run"]
    /\ UNCHANGED <<costs_df, loans_df, monthly_kpis, given, ret, exc, locals>>

\* an uncaught exception unwinds generate_anomaly_report and run
Unwind(out) ==
    /\ exc' = Error(out)
    /\ pc' = "raised"

\* generate_anomaly_report: cost_anomalies = detect_cost_anomalies(costs_df)
GarDetectCosts ==
    /\ pc = "gar_costs"
    /\ \E out \in detect_cost_anomalies(costs_df, Z_SCORE_THRESHOLD) :
           /\ costs_df' = out.df
           /\ IF out.exc = "none"
              THEN gar_cost_anomalies' = out.value /\ pc' = "gar_loans" /\ exc' = exc
              ELSE Unwind(out) /\ UNCHANGED gar_cost_anomalies
    /\ UNCHANGED <<loans_df, monthly_kpis, given, call, ret, gar_loan_anomalies,
                   gar_kpi_anomalies, summary, cost_anomalies, loan_anomalies,
                   kpi_anomalies, outputs>>

\* generate_anomaly_report: loan_anomalies = detect_loan_anomalies(loans_df)
GarDetectLoans ==
    /\ pc = "gar_loans"
    /\ \E out \in detect_loan_anomalies(loans_df, Z_SCORE_THRESHOLD) :
           /\ loans_df' = out.df
           /\ IF out.exc = "none"
              THEN gar_loan_anomalies' = out.value /\ pc' = "gar_kpis" /\ exc' = exc
              ELSE Unwind(out) /\ UNCHANGED gar_loan_anomalies
    /\ UNCHANGED <<costs_df, monthly_kpis, given, call, ret, gar_cost_anomalies,
                   gar_kpi_anomalies, summary, cost_anomalies, loan_anomalies,
                   kpi_anomalies, outputs>>

\* generate_anomaly_report: kpi_anomalies = analyze_monthly_kpi_anomalies(...)
GarAnalyzeKpis ==
    /\ pc = "gar_kpis"
    /\ \E out \in {analyze_monthly_kpi_anomalies(monthly_kpis)} :
           /\ monthly_kpis' = out.df
           /\ IF out.exc = "none"
              THEN gar_kpi_anomalies' = out.value /\ pc' = "gar_summary" /\ exc' = exc
              ELSE Unwind(out) /\ UNCHANGED gar_kpi_anomalies
    /\ UNCHANGED <<costs_df, loans_df, given, call, ret, gar_cost_anomalies,
                   gar_loan_anomalies, summary, cost_anomalies, loan_anomalies,
                   kpi_anomalies, outputs>>

\* generate_anomaly_report builds the summary and returns it to run
GarSummary ==
    /\ pc = "gar_summary"
    /\ summary' = BuildSummary(gar_cost_anomalies, gar_loan_anomalies, gar_kpi_anomalies)
    /\ pc' = "run_costs"
    /\ UNCHANGED <<costs_df, loans_df, monthly_kpis, given, call, ret, exc,
                   gar_cost_anomalies, gar_loan_anomalies, gar_kpi_anomalies,
                   cost_anomalies, loan_anomalies, kpi_anomalies, outputs>>

\* run: cost_anomalies = detect_cost_anomalies(data['costs'])
RunDetectCosts ==
    /\ pc = "run_costs"
    /\ \E out \in {o \in detect_cost_anomalies(costs_df, Z_SCORE_THRESHOLD) :
                         TiesAsBefore(o.value, gar_cost_anomalies, "cost_id")} :
           /\ costs_df' = out.df
           /\ IF out.exc = "none"
              THEN cost_anomalies' = out.value /\ pc' = "run_loans" /\ exc' = exc
              ELSE Unwind(out) /\ UNCHANGED cost_anomalies
    /\ UNCHANGED <<loans_df, monthly_kpis, given, call, ret, gar_cost_anomalies,
                   gar_loan_anomalies, gar_kpi_anomalies, summary, loan_anomalies,
                   kpi_anomalies, outputs>>

\* run: loan_anomalies = detect_loan_anomalies(data['loans'])
RunDetectLoans ==
    /\ pc = "run_loans"
    /\ \E out \in {o \in detect_loan_anomalies(loans_df, Z_SCORE_THRESHOLD) :
                         TiesAsBefore(o.value, gar_loan_anomalies, "loan_id")} :
           /\ loans_df' = out.df
           /\ IF out.exc = "none"
              THEN loan_anomalies' = out.value /\ pc' = "run_kpis" /\ exc' = exc
              ELSE Unwind(out) /\ UNCHANGED loan_anomalies
    /\ UNCHANGED <<costs_df, monthly_kpis, given, call, ret, gar_cost_anomalies,
                   gar_loan_anomalies, gar_kpi_anomalies, summary, cost_anomalies,
                   kpi_anomalies, outputs>>

\* run: kpi_anomalies = analyze_monthly_kpi_anomalies(monthly_kpis)
RunAnalyzeKpis ==
    /\ pc = "run_kpis"
    /\ \E out \in {analyze_monthly_kpi_anomalies(monthly_kpis)} :
           /\ monthly_kpis' = out.df
           /\ IF out.exc = "none"
              THEN kpi_anomalies' = out.value /\ pc' = "run_save" /\ exc' = exc
              ELSE Unwind(out) /\ UNCHANGED kpi_anomalies
    /\ UNCHANGED <<costs_df, loans_df, given, call, ret, gar_cost_anomalies,
                   gar_loan_anomalies, gar_kpi_anomalies, summary, cost_anomalies,
                   loan_anomalies, outputs>>

\* run saves its outputs and returns the summary
RunSave ==
    /\ pc = "run_save"
    /\ outputs' = SavedFiles(summary, cost_anomalies, loan_anomalies, kpi_anomalies)
    /\ ret' = summary
    /\ pc' = "returned"
    /\ UNCHANGED <<costs_df, loans_df, monthly_kpis, given, call, exc,
                   gar_cost_anomalies, gar_loan_anomalies, gar_kpi_anomalies, summary,
                   cost_anomalies, loan_anomalies, kpi_anomalies>>

Next ==
    \/ \E threshold \in Thresholds : CallDetectCostAnomalies(threshold)
    \/ \E threshold \in Thresholds : CallDetectLoanAnomalies(threshold)
    \/ \E k \in 1..Len(kpi_columns) : CallDetectTimeSeriesAnomalies(kpi_columns[k])
    \/ CallAnalyzeMonthlyKpiAnomalies
    \/ \E name \in {"costs", "loans"} : CallValidateDataframe(name)
    \/ CallRun
    \/ GarDetectCosts
    \/ GarDetectLoans
    \/ GarAnalyzeKpis
    \/ GarSummary
    \/ RunDetectCosts
    \/ RunDetectLoans
    \/ RunAnalyzeKpis
    \/ RunSave

Spec == Init /\ [][Next]_vars

----------------------------------------------------------------------------
(* What the specification says of the detectors, stated on the tables as
   they were handed in *)

CostWatched == <<"variance_pct", "actual_amount">>
CostScores == <<"variance_z_score", "actual_z_score">>
CostLabels == <<"High Variance", "High Amount">>
LoanWatched == <<"pd", "ecl", "ead">>
LoanScores == <<"pd_z_score", "ecl_z_score", "ead_z_score">>
LoanLabels == <<"High PD", "High ECL", "High EAD">>

\* |x_i - mean| / stddev > T for row i of column f, with the sample standard
\* deviation of the whole column; never so when the deviation is zero or
\* undefined.  Squared and cleared of fractions:
\*   (n x_i - S)^2 (n - 1) > T^2 n (n Q - S^2)
ExceedsOn(df, f, i, T) ==
    LET xs == Column(df, f)
        n == Len(xs)
        S == SumSeq(xs)
        D == n * SumSq(xs) - S * S
        d == n * xs[i] - S
    IN  n >= 2 /\ D > 0 /\ d * d * (n - 1) > T * T * n * D

\* some watched field of row i exceeds T
ExceedsAny(df, watched, i, T) ==
    \E k \in 1..Len(watched) : ExceedsOn(df, watched[k], i, T)

\* the row of df with this id
RowOf(df, idc, id) == CHOOSE i \in 1..Len(df.rows) : df.rows[i][idc] = id

CostCallReturned == pc = "returned" /\ call.fn = "detect_cost_anomalies"
LoanCallReturned == pc = "returned" /\ call.fn = "detect_loan_anomalies"

\* out holds exactly the rows of in that exceed T on a watched field, each
\* once and with the values it came with
FlaggedExactly(in, out, idc, watched, T) ==
    /\ \A i \in 1..Len(in.rows) :
          (\E j \in 1..Len(out.rows) : out.rows[j][idc] = in.rows[i][idc])
              <=> ExceedsAny(in, watched, i, T)
    /\ \A j \in 1..Len(out.rows) :
          \E i \in 1..Len(in.rows) : \A c \in in.cols : out.rows[j][c] = in.rows[i][c]
    /\ \A j, k \in 1..Len(out.rows) : j # k => out.rows[j][idc] # out.rows[k][idc]

\* C1: a row is returned by detect_cost_anomalies / detect_loan_anomalies iff
\* the absolute score of at least one of its watched fields is strictly above
\* T; returned rows are input rows with their id and values unchanged, and no
\* row is returned twice.
C1_FlaggedIffAnyFieldExceeds ==
    /\ CostCallReturned =>
          FlaggedExactly(given.costs, ret, "cost_id", CostWatched, call.threshold)
    /\ LoanCallReturned =>
          FlaggedExactly(given.loans, ret, "loan_id", LoanWatched, call.threshold)

\* at the default threshold a cost row is returned that exceeds T on its
\* amount only, while other rows are left out
C1_Witness ==
    /\ CostCallReturned
    /\ call.threshold = Z_SCORE_THRESHOLD
    /\ Len(ret.rows) < Len(given.costs.rows)
    /\ \E j \in 1..Len(ret.rows) :
          LET i == RowOf(given.costs, "cost_id", ret.rows[j]["cost_id"])
          IN  /\ ~ExceedsOn(given.costs, "variance_pct", i, call.threshold)
              /\ ExceedsOn(given.costs, "actual_amount", i, call.threshold)

\* the label of the first watched field of row i that exceeds T
FirstLabel(df, watched, labels, i, T) ==
    LET k == CHOOSE k \in 1..Len(watched) :
                 /\ ExceedsOn(df, watched[k], i, T)
                 /\ \A m \in 1..(k - 1) : ~ExceedsOn(df, watched[m], i, T)
    IN  labels[k]

LabelledByPriority(in, out, idc, watched, labels, T) ==
    \A j \in 1..Len(out.rows) :
        LET i == RowOf(in, idc, out.rows[j][idc])
        IN  /\ out.rows[j]["anomaly_type"] = FirstLabel(in, watched, labels, i, T)
            /\ out.rows[j]["anomaly_type"] = labels[Len(labels)]
                  => ExceedsOn(in, watched[Len(watched)], i, T)

\* C2: anomaly_type of a flagged record is the label of the first watched
\* field, in priority order, whose absolute score exceeds T, also when a later
\* field's score is larger; the last label goes only to a record whose last
\* field exceeds T.
C2_LabelIsFirstExceedingField ==
    /\ CostCallReturned =>
          LabelledByPriority(given.costs, ret, "cost_id", CostWatched, CostLabels,
                             call.threshold)
    /\ LoanCallReturned =>
          LabelledByPriority(given.loans, ret, "loan_id", LoanWatched, LoanLabels,
                             call.threshold)

\* a cost record labelled 'High Variance' although its amount score is the
\* larger of its two scores, both above T
C2_Witness ==
    /\ CostCallReturned
    /\ \E j \in 1..Len(ret.rows) :
          LET x == ret.rows[j]
          IN  /\ AbsExceeds(x["variance_z_score"], call.threshold)
              /\ AbsExceeds(x["actual_z_score"], call.threshold)
              /\ ScoreGT(AbsScore(x["actual_z_score"]), AbsScore(x["variance_z_score"]))
              /\ x["anomaly_type"] = "High Variance"

\* the square of the absolute score of row i on field f, as <<num, den>> in
\* lowest terms
SquaredScore(df, f, i) ==
    LET xs == Column(df, f)
        n == Len(xs)
        S == SumSeq(xs)
        d == n * xs[i] - S
        num == d * d * (n - 1)
        den == n * (n * SumSq(xs) - S * S)
        g == GCD(num, den)
    IN  IF den = 0 THEN <<num, den>> ELSE <<num \div g, den \div g>>

\* severity z equals the absolute score of row i on field f (both squares
\* are in lowest terms)
SeverityIs(z, df, f, i) ==
    LET q == SquaredScore(df, f, i)
    IN  ~z.nan /\ q[2] > 0 /\ z.num = q[1] /\ z.den = q[2]

\* severity z is at least the absolute score of row i on field f
SeverityCovers(z, df, f, i) ==
    LET q == SquaredScore(df, f, i)
    IN  ~z.nan /\ (q[2] > 0 /\ z.den > 0 => ~FracGT(q[1], q[2], z.num, z.den))

SeverityRanked(in, out, idc, watched, T) ==
    /\ \A j \in 1..Len(out.rows) :
          LET i == RowOf(in, idc, out.rows[j][idc])
              z == out.rows[j]["severity"]
          IN  /\ \E k \in 1..Len(watched) : SeverityIs(z, in, watched[k], i)
              /\ \A k \in 1..Len(watched) : SeverityCovers(z, in, watched[k], i)
              /\ z.sgn = 1 /\ AbsExceeds(z, T)
    /\ \A j \in 1..(Len(out.rows) - 1) :
          ~ScoreGT(out.rows[j + 1]["severity"], out.rows[j]["severity"])

\* C3: severity of a returned row is the maximum of the absolute scores of
\* its watched fields (hence above T), and the rows come in non-increasing
\* severity, row 0 carrying the maximum.
C3_SeverityIsMaxAndSortedDescending ==
    /\ CostCallReturned =>
          SeverityRanked(given.costs, ret, "cost_id", CostWatched, call.threshold)
    /\ LoanCallReturned =>
          SeverityRanked(given.loans, ret, "loan_id", LoanWatched, call.threshold)

\* two loan records returned in the reverse of their input order, the later
\* one first because its severity is strictly larger
C3_Witness ==
    /\ LoanCallReturned
    /\ Len(ret.rows) >= 2
    /\ ret.rows[1]["loan_id"] > ret.rows[2]["loan_id"]
    /\ ScoreGT(ret.rows[1]["severity"], ret.rows[2]["severity"])
    /\ ScoreGT(AbsScore(ret.rows[1]["ead_z_score"]), AbsScore(ret.rows[1]["pd_z_score"]))

\* every value of column f is the same, the column holding at least one
ZeroSpread(df, f) ==
    /\ f \in df.cols
    /\ Len(df.rows) >= 1
    /\ \A i, j \in 1..Len(df.rows) : df.rows[i][f] = df.rows[j][f]

ScoresZero(in, scored, out, watched, scores, T) ==
    \A k \in 1..Len(watched) :
        ZeroSpread(in, watched[k]) =>
            /\ \A i \in 1..Len(scored.rows) : scored.rows[i][scores[k]] = Zero
            /\ \A j \in 1..Len(out.rows) : ~AbsExceeds(out.rows[j][scores[k]], T)

\* C4: for a column of one or more identical values (a single element
\* included) calculate_z_score gives exactly 0 for every row, and the detectors
\* flag no row on account of that field.
C4_ZeroSpreadScoresAreZero ==
    /\ CostCallReturned =>
          ScoresZero(given.costs, costs_df, ret, CostWatched, CostScores, call.threshold)
    /\ LoanCallReturned =>
          ScoresZero(given.loans, loans_df, ret, LoanWatched, LoanScores, call.threshold)

\* C5: the engine never mutates the caller's tables: when a detector or
\* generate_anomaly_report has returned, each table handed in has the columns,
\* rows and values it had before the call.
C5_CallerTablesUnchanged ==
    (pc = "returned" \/ pc = "run_costs") =>
        /\ costs_df = given.costs
        /\ loans_df = given.loans
        /\ monthly_kpis = given.kpis

\* in period order: five identical values, then one far above them
FlatThenSpike(df, value_col) ==
    /\ {"month", value_col} \subseteq df.cols
    /\ Len(df.rows) = 6
    /\ LET values == Column(SortValues(df, "month"), value_col)
       IN  /\ \A i \in 1..5 : values[i] = values[1]
           /\ values[6] >= values[1] + SpikeValue

\* C6: on five identical values followed by one value far above them,
\* detect_time_series_anomalies returns exactly one row, the outlier point.
C6_SpikeAfterFlatSeriesIsFlagged ==
    (/\ pc = "returned"
     /\ call.fn = "detect_time_series_anomalies"
     /\ FlatThenSpike(given.kpis, call.value_col))
        => /\ Len(ret.rows) = 1
           /\ ret.rows[1]["month"] = 6

\* the table has every watched column
Complete(df, watched) == \A k \in 1..Len(watched) : watched[k] \in df.cols

\* no row exceeds T on any watched field (so also: the table has no rows)
NothingToFlag(df, watched, T) ==
    \A i \in 1..Len(df.rows) : ~ExceedsAny(df, watched, i, T)

RowsOfCategory(rows, category) ==
    {k \in 1..Len(rows) : rows[k]["category"] = category}

\* C7: a cross-sectional detector given zero rows, or flagging zero records,
\* returns an empty result and raises nothing; run raises only when a column
\* is missing, and completes with no summary row and no finding for a
\* category that flagged nothing.
C7_NothingFlaggedIsEmptyNotError ==
    /\ (/\ call.fn = "detect_cost_anomalies" /\ pc # "start"
        /\ Complete(given.costs, CostWatched)
        /\ NothingToFlag(given.costs, CostWatched, call.threshold))
          => pc = "returned" /\ exc = NoExc /\ ret.rows = <<>>
    /\ (/\ call.fn = "detect_loan_anomalies" /\ pc # "start"
        /\ Complete(given.loans, LoanWatched)
        /\ NothingToFlag(given.loans, LoanWatched, call.threshold))
          => pc = "returned" /\ exc = NoExc /\ ret.rows = <<>>
    /\ (call.fn = "run" /\ pc = "raised")
          => ~(/\ Complete(given.costs, CostWatched)
               /\ Complete(given.loans, LoanWatched)
               /\ "month" \in given.kpis.cols)
    /\ (/\ call.fn = "run" /\ pc = "returned"
        /\ NothingToFlag(given.costs, CostWatched, Z_SCORE_THRESHOLD))
          => /\ cost_anomalies.rows = <<>>
             /\ RowsOfCategory(summary, "Costs") = {}
             /\ "anomalies.csv" \in DOMAIN outputs
                   => RowsOfCategory(outputs["anomalies.csv"].rows, "Cost") = {}
    /\ (/\ call.fn = "run" /\ pc = "returned"
        /\ NothingToFlag(given.loans, LoanWatched, Z_SCORE_THRESHOLD))
          => /\ loan_anomalies.rows = <<>>
             /\ RowsOfCategory(summary, "Loans") = {}
             /\ "anomalies.csv" \in DOMAIN outputs
                   => RowsOfCategory(outputs["anomalies.csv"].rows, "Loan") = {}

\* run has returned on a cost table without rows: the summary holds the loan
\* category alone, and the combined findings are loan findings
C7_Witness ==
    /\ call.fn = "run" /\ pc = "returned"
    /\ given.costs.rows = <<>>
    /\ Len(summary) = 1 /\ summary[1]["category"] = "Loans"
    /\ "anomalies.csv" \in DOMAIN outputs
    /\ outputs["cost_anomalies.csv"].rows = <<>>

\* C8: a failure of one category's detector, such as a watched column missing
\* from the loan table, does not abort run: the failure is caught and the
\* summary of the categories that succeeded is still returned.
C8_DetectorFailureDoesNotAbortRun ==
    (/\ call.fn = "run"
     /\ Complete(given.costs, CostWatched)
     /\ ~Complete(given.loans, LoanWatched)
     /\ "month" \in given.kpis.cols)
        => /\ pc # "raised"
           /\ pc = "returned" =>
                 (~NothingToFlag(given.costs, CostWatched, Z_SCORE_THRESHOLD)
                     => RowsOfCategory(ret, "Costs") # {})

MissingOf(df, watched) == {watched[k] : k \in 1..Len(watched)} \ df.cols

\* C9: a detector handed a table that lacks watched columns ends in a failure
\* that names all the missing columns, and yields no result table.
C9_MissingColumnsAllReported ==
    /\ (/\ call.fn = "detect_cost_anomalies" /\ pc # "start"
        /\ ~Complete(given.costs, CostWatched))
          => /\ pc = "raised"
             /\ exc.keys = MissingOf(given.costs, CostWatched)
             /\ ret = EmptyFrame
    /\ (/\ call.fn = "detect_loan_anomalies" /\ pc # "start"
        /\ ~Complete(given.loans, LoanWatched))
          => /\ pc = "raised"
             /\ exc.keys = MissingOf(given.loans, LoanWatched)
             /\ ret = EmptyFrame

\* generate_anomaly_report has returned its summary to run
SummaryBuilt ==
    /\ call.fn = "run"
    /\ pc \in {"run_costs", "run_loans", "run_kpis", "run_save", "returned"}

\* the severity of a finding of the category
FindingSeverity(category, x) ==
    IF category = "KPIs" THEN AbsScore(x["rolling_z_score"]) ELSE x["severity"]

SummaryRowMatches(category, anomalies, grouping) ==
    LET at == RowsOfCategory(summary, category)
        n == Len(anomalies.rows)
    IN  /\ Cardinality(at) = IF n > 0 THEN 1 ELSE 0
        /\ \A k \in at :
              /\ summary[k]["anomaly_count"] = n
              /\ \A j \in 1..n :
                    ~ScoreGT(FindingSeverity(category, anomalies.rows[j]),
                             summary[k]["max_severity"])
              /\ \E j \in 1..n :
                    /\ FindingSeverity(category, anomalies.rows[j])
                          = summary[k]["max_severity"]
                    /\ category # "KPIs"
                          => anomalies.rows[j][grouping] = summary[k]["top_issue"]

\* C10: the summary holds exactly one row for each of Costs, Loans, KPIs whose
\* result set is non-empty and none for an empty one; the row's anomaly_count
\* is the number of results and its max_severity their largest severity, for
\* Costs and Loans the severity of the record named by top_issue.
C10_SummaryRowPerNonEmptyCategory ==
    SummaryBuilt =>
        /\ SummaryRowMatches("Costs", gar_cost_anomalies, "business_unit")
        /\ SummaryRowMatches("Loans", gar_loan_anomalies, "loan_type")
        /\ SummaryRowMatches("KPIs", gar_kpi_anomalies, "kpi_name")
        /\ \A k \in 1..Len(summary) : summary[k]["category"] \in {"Costs", "Loans", "KPIs"}

\* two cost findings are summarised in the only row; loans flagged nothing
C10_Witness ==
    /\ SummaryBuilt
    /\ Len(gar_cost_anomalies.rows) = 2
    /\ gar_loan_anomalies.rows = <<>>
    /\ Len(given.loans.rows) > 0
    /\ Len(summary) = 1
    /\ summary[1]["category"] = "Costs"
    /\ summary[1]["anomaly_count"] = 2

\* run has returned to its caller
RunReturned == call.fn = "run" /\ pc = "returned"

\* the rows of the combined findings table run saved, none when it saved none
Combined ==
    IF "anomalies.csv" \in DOMAIN outputs THEN outputs["anomalies.csv"].rows ELSE <<>>

\* the ids of the rows of df that exceed T on a watched field
FlaggedIds(df, idc, watched, T) ==
    {df.rows[i][idc] : i \in {i \in 1..Len(df.rows) : ExceedsAny(df, watched, i, T)}}

\* rows first .. first + count - 1 are the count highest-severity flagged
\* records of in, each once, tagged, highest first
TopOfCategory(rows, in, idc, watched, tag, first, count) ==
    LET flagged == FlaggedIds(in, idc, watched, Z_SCORE_THRESHOLD)
        range == first..(first + count - 1)
        taken == {rows[j][idc] : j \in range}
    IN  /\ count = Min(TopN, Cardinality(flagged))
        /\ taken \subseteq flagged
        /\ Cardinality(taken) = count
        /\ \A j \in range :
              LET i == RowOf(in, idc, rows[j][idc])
                  z == rows[j]["severity"]
              IN  /\ rows[j]["category"] = tag
                  /\ \E k \in 1..Len(watched) : SeverityIs(z, in, watched[k], i)
                  /\ \A k \in 1..Len(watched) : SeverityCovers(z, in, watched[k], i)
                  /\ \A id \in flagged \ taken : \A k \in 1..Len(watched) :
                        SeverityCovers(z, in, watched[k], RowOf(in, idc, id))
        /\ \A j \in range : j + 1 \in range =>
              ~ScoreGT(rows[j + 1]["severity"], rows[j]["severity"])

\* C11: the combined findings table of run holds the min(10, count)
\* highest-severity cost anomalies tagged 'Cost', then the min(10, count)
\* highest-severity loan anomalies tagged 'Loan', and nothing else: no KPI
\* anomaly, at most 10 rows of a category, and only rows of the other category
\* when one category flagged nothing.
C11_CombinedIsTopTenOfCostsThenLoans ==
    RunReturned =>
        LET rows == Combined
            nc == Min(TopN, Cardinality(FlaggedIds(given.costs, "cost_id", CostWatched,
                                                   Z_SCORE_THRESHOLD)))
            nl == Min(TopN, Cardinality(FlaggedIds(given.loans, "loan_id", LoanWatched,
                                                   Z_SCORE_THRESHOLD)))
        IN  /\ Len(rows) = nc + nl
            /\ nc <= TopN /\ nl <= TopN
            /\ TopOfCategory(rows, given.costs, "cost_id", CostWatched, "Cost", 1, nc)
            /\ TopOfCategory(rows, given.loans, "loan_id", LoanWatched, "Loan", nc + 1, nl)
            /\ \A j \in 1..Len(rows) :
                  /\ rows[j]["category"] \in {"Cost", "Loan"}
                  /\ DOMAIN rows[j] \cap {"kpi_name", "rolling_z_score", "month"} = {}

\* eleven loan records were flagged: the combined table holds the cost
\* finding and then ten of them, highest severity first and not in their
\* input order, the record left out being one of the lowest severity
C11_Witness ==
    /\ RunReturned
    /\ Len(loan_anomalies.rows) = TopN + 1
    /\ Len(Combined) = 1 + TopN
    /\ Combined[1]["category"] = "Cost"
    /\ Combined[2]["category"] = "Loan"
    /\ Combined[2]["loan_id"] > Combined[1 + TopN]["loan_id"]
    /\ ScoreGT(Combined[2]["severity"], Combined[1 + TopN]["severity"])
    /\ ~ScoreGT(loan_anomalies.rows[TopN + 1]["severity"], Combined[1 + TopN]["severity"])
    /\ \A j \in 2..(1 + TopN) :
          Combined[j]["loan_id"] # loan_anomalies.rows[TopN + 1]["loan_id"]

\* the saved detail table of a category agrees with the saved summary: as
\* many rows as the category's anomaly_count, their largest severity its
\* max_severity, and no rows when the summary has no row for the category
SavedAgreesWithSummary(file, category) ==
    LET saved == IF file \in DOMAIN outputs THEN outputs[file].rows ELSE <<>>
        summ == outputs["anomalies_summary.csv"]
        at == RowsOfCategory(summ, category)
    IN  /\ at = {} <=> saved = <<>>
        /\ \A k \in at :
              /\ summ[k]["anomaly_count"] = Len(saved)
              /\ \A j \in 1..Len(saved) :
                    ~ScoreGT(FindingSeverity(category, saved[j]), summ[k]["max_severity"])
              /\ \E j \in 1..Len(saved) :
                    FindingSeverity(category, saved[j]) = summ[k]["max_severity"]

\* C12: the second invocation of the three detectors inside run, on the
\* tables generate_anomaly_report has already used, returns the same rows,
\* scores, labels, severities and order as the first, so the saved detail
\* tables agree with the counts and max severities of the saved summary.
C12_SecondDetectionRepeatsTheFirst ==
    call.fn = "run" =>
        /\ pc \in {"run_loans", "run_kpis", "run_save", "returned"}
              => cost_anomalies = gar_cost_anomalies
        /\ pc \in {"run_kpis", "run_save", "returned"}
              => loan_anomalies = gar_loan_anomalies
        /\ pc \in {"run_save", "returned"}
              => kpi_anomalies = gar_kpi_anomalies
        /\ pc = "returned"
              => /\ outputs["cost_anomalies.csv"] = gar_cost_anomalies
                 /\ outputs["loan_anomalies.csv"] = gar_loan_anomalies
                 /\ SavedAgreesWithSummary("cost_anomalies.csv", "Costs")
                 /\ SavedAgreesWithSummary("loan_anomalies.csv", "Loans")
                 /\ SavedAgreesWithSummary("kpi_anomalies.csv", "KPIs")

\* run has returned; its second detections ran on tables the first had
\* already extended with score columns, and both categories have findings
C12_Witness ==
    /\ RunReturned
    /\ costs_df # given.costs /\ loans_df # given.loans
    /\ "variance_z_score" \in costs_df.cols /\ "pd_z_score" \in loans_df.cols
    /\ Len(gar_cost_anomalies.rows) >= 2
    /\ Len(gar_loan_anomalies.rows) >= 1
    /\ Len(outputs["cost_anomalies.csv"].rows) = Len(gar_cost_anomalies.rows)

\* detect_time_series_anomalies was called on a table that has its period
\* column, and the call is over
SeriesCallOver ==
    /\ call.fn = "detect_time_series_anomalies"
    /\ pc # "start"
    /\ "month" \in given.kpis.cols

\* C13: for a series of n points the window is W = min(3, n - 1); for every
\* n <= 2, n = 0 included, detect_time_series_anomalies returns an empty
\* result and raises nothing (whether or not the value column is there), and
\* for n >= 3 it evaluates the series, with W >= 2: the result carries the
\* rolling columns.
C13_ShortSeriesIsEmptyNotError ==
    SeriesCallOver =>
        LET n == Len(given.kpis.rows)
            W == WindowFor(n)
        IN  /\ W = (IF n - 1 < 3 THEN n - 1 ELSE 3)
            /\ n <= 2 => /\ pc = "returned" /\ exc = NoExc
                          /\ ret = EmptyFrame
                          /\ W < 2
            /\ (n >= 3 /\ call.value_col \in given.kpis.cols)
                  => /\ pc = "returned" /\ exc = NoExc
                     /\ W >= 2
                     /\ {"rolling_mean", "rolling_std", "rolling_z_score"}
                            \subseteq ret.cols

\* two points, far apart, on a column the table has: nothing is evaluated
C13_Witness ==
    /\ SeriesCallOver
    /\ pc = "returned"
    /\ Len(given.kpis.rows) = 2
    /\ call.value_col = "total_revenue"
    /\ \E i \in 1..2 : given.kpis.rows[i]["total_revenue"] = SpikeValue
    /\ \E i \in 1..2 : given.kpis.rows[i]["total_revenue"] = 0
    /\ ret = EmptyFrame

\* the last row of df is an injected record: the rows before it, five or
\* more, hold values of f with mean m and sample deviation s > 0, and the last
\* holds m + 10 s.  Cleared of fractions, with S and Q the sum and the sum of
\* squares of the k values:  (k x - S)^2 (k - 1) = 100 k (k Q - S^2)
InjectedOn(df, f) ==
    LET k == Len(df.rows) - 1
        xs == SubSeq(Column(df, f), 1, k)
        x == df.rows[k + 1][f]
        S == SumSeq(xs)
        D == k * SumSq(xs) - S * S
    IN  /\ f \in df.cols
        /\ k >= 5
        /\ D > 0
        /\ k * x > S
        /\ (k * x - S) * (k * x - S) * (k - 1) = 100 * k * D

\* out holds the last record of in with a severity of 10 or more and the
\* label of the first watched field that exceeds T
InjectedIsReturned(in, out, idc, watched, labels, T) ==
    \E j \in 1..Len(out.rows) :
        /\ out.rows[j][idc] = in.rows[Len(in.rows)][idc]
        /\ ~out.rows[j]["severity"].nan
        /\ \/ out.rows[j]["severity"].den = 0
           \/ ~FracGT(100, 1, out.rows[j]["severity"].num, out.rows[j]["severity"].den)
        /\ ExceedsAny(in, watched, Len(in.rows), T)
        /\ out.rows[j]["anomaly_type"] = FirstLabel(in, watched, labels, Len(in.rows), T)

\* C14: when a table is five or more tightly clustered values of a watched
\* field plus one injected record at mean + 10 * stddev of those values, the
\* cross-sectional detector at the default threshold returns the injected
\* record, with severity >= 10 and the label of the first watched field whose
\* score exceeds T.
C14_InjectedOutlierIsReturnedWithSeverityTen ==
    /\ (/\ call.fn = "detect_cost_anomalies" /\ pc # "start"
        /\ call.threshold = Z_SCORE_THRESHOLD
        /\ \E k \in 1..Len(CostWatched) : InjectedOn(given.costs, CostWatched[k]))
          => /\ pc = "returned"
             /\ InjectedIsReturned(given.costs, ret, "cost_id", CostWatched, CostLabels,
                                   Z_SCORE_THRESHOLD)
    /\ (/\ call.fn = "detect_loan_anomalies" /\ pc # "start"
        /\ call.threshold = Z_SCORE_THRESHOLD
        /\ \E k \in 1..Len(LoanWatched) : InjectedOn(given.loans, LoanWatched[k]))
          => /\ pc = "returned"
             /\ InjectedIsReturned(given.loans, ret, "loan_id", LoanWatched, LoanLabels,
                                   Z_SCORE_THRESHOLD)

\* the W values up to and including point i, in period order
TrailingWindow(df, value_col, i, W) ==
    SubSeq(Column(SortValues(df, "month"), value_col), i - W + 1, i)

\* the rolling score of point i is undefined (its window has no spread, the
\* point then lying on the window mean) or at most (W - 1) / sqrt(W) in
\* absolute value.  With S, Q the sum and sum of squares of the window and x
\* its last value, the squared score is (W x - S)^2 (W - 1) / (W (W Q - S^2))
ScoreWithinBound(df, value_col, i, W) ==
    LET w == TrailingWindow(df, value_col, i, W)
        S == SumSeq(w)
        D == W * SumSq(w) - S * S
        d == W * w[W] - S
    IN  /\ D = 0 => d = 0
        /\ d * d <= (W - 1) * D

\* the score of point i meets the bound exactly, above zero
ScoreAtBound(df, value_col, i, W) ==
    LET w == TrailingWindow(df, value_col, i, W)
        S == SumSeq(w)
        D == W * SumSq(w) - S * S
        d == W * w[W] - S
    IN  D > 0 /\ d * d = (W - 1) * D

\* C15: every point's rolling score in detect_time_series_anomalies is
\* undefined or at most (W - 1) / sqrt(W) <= 2 / sqrt(3) in absolute value,
\* the point being one of the W points of its own window; so at the threshold
\* 3.0 detect_time_series_anomalies and analyze_monthly_kpi_anomalies return
\* no row, and the summary never holds a 'KPIs' row.
C15_RollingScoreNeverReachesThreshold ==
    /\ (/\ call.fn = "detect_time_series_anomalies" /\ pc # "start"
        /\ {"month", call.value_col} \subseteq given.kpis.cols)
          => LET n == Len(given.kpis.rows)
                 W == IF n - 1 < 3 THEN n - 1 ELSE 3
             IN  /\ pc = "returned"
                 /\ ret.rows = <<>>
                 /\ W >= 2 =>
                       /\ 3 * (W - 1) * (W - 1) <= 4 * W
                       /\ \A i \in W..n :
                             ScoreWithinBound(given.kpis, call.value_col, i, W)
    /\ (/\ call.fn = "analyze_monthly_kpi_anomalies" /\ pc # "start"
        /\ "month" \in given.kpis.cols)
          => pc = "returned" /\ ret = EmptyFrame
    /\ call.fn = "run"
          => /\ gar_kpi_anomalies.rows = <<>>
             /\ kpi_anomalies.rows = <<>>
             /\ RowsOfCategory(summary, "KPIs") = {}
             /\ "kpi_anomalies.csv" \notin DOMAIN outputs

\* a flat series ending in a spike was evaluated: the spike's score is the
\* largest a point can have, 2 / sqrt(3), and no row is returned
C15_Witness ==
    /\ call.fn = "detect_time_series_anomalies" /\ pc = "returned"
    /\ FlatThenSpike(given.kpis, call.value_col)
    /\ ScoreAtBound(given.kpis, call.value_col, 6, 3)
    /\ "rolling_z_score" \in ret.cols
    /\ ret.rows = <<>>

====
